---- MODULE Spec2Model ----
(***************************************************************************)
(* Model of outreach.py: the worksheet reader (iter_sheet_rows), the       *)
(* recipient builder (load_recipients / build_context), main's recipient   *)
(* slicing and empty check, and the sender (send_messages / send_one).     *)
(*                                                                         *)
(* Text is modelled as a sequence of one-character strings, so that        *)
(* str.strip, str.lower and the '@' test are computed and not assumed.     *)
(* Counts and durations given on the command line (--retries,              *)
(* --retry-delay, --pause) range over the naturals, zero included.         *)
(***************************************************************************)
EXTENDS Integers, Sequences, FiniteSets, TLC

VARIABLES
    args,            \* the argparse namespace (read-only after parse_args)
    rows,            \* the rows iter_sheet_rows yields to load_recipients
    recipients,      \* main's / send_messages' list of recipient contexts
    pc,              \* position of the single thread of control
    exit_code,       \* process exit status (-1 while the process runs)
    connection_cls,  \* send_messages: class chosen at line 226
    idx,             \* send_messages: enumerate index of the for loop
    attempt,         \* send_one: attempt counter
    open,            \* number of SMTP connections currently open
    steps,           \* operations completed on the current attempt's client
    exc,             \* exception in flight ("none" when there is none)
    successes,       \* send_messages: success counter
    failures,        \* send_messages: list of <<email, reason>>
    progress,        \* the per-recipient progress lines printed so far
    summary,         \* the "Done." lines printed (line 276)
    sleeps,          \* durations of time.sleep(backoff) for the current recipient
    pauses,          \* number of time.sleep(args.pause) calls so far
    handoffs,        \* completed client.send_message calls for the current recipient
    connects,        \* connection_cls(...) calls for the current recipient
    sheet_pos,       \* iter_sheet_rows: physical rows consumed so far
    header_map,      \* iter_sheet_rows: <<>> (None) or <<index -> header>>
    later,           \* iter_sheet_rows: cells of the rows with cells after the header
    yielded          \* iter_sheet_rows: the row dicts yielded so far

vars == <<args, rows, recipients, pc, exit_code, connection_cls, idx, attempt,
          open, steps, exc, successes, failures, progress, summary, sleeps,
          pauses, handoffs, connects, sheet_pos, header_map, later, yielded>>

senderVars == <<connection_cls, idx, attempt, open, steps, exc, successes,
                failures, progress, summary, sleeps, pauses, handoffs, connects>>

sheetVars == <<sheet_pos, header_map, later, yielded>>

(***************************************************************************)
(* Bounds of the model.                                                    *)
(***************************************************************************)
MaxRecipients == 2
MaxRetries == 2
MaxRetryDelay == 2
MaxPause == 1
MaxRows == 2
MaxEmailLen == 2
MaxSheetRows == 3
MaxCells == 2

(***************************************************************************)
(* Text.                                                                   *)
(***************************************************************************)
Chars == {"F", "f", "@", " "}

Min(a, b) == IF a < b THEN a ELSE b

Max(a, b) == IF a > b THEN a ELSE b

Texts(n) == UNION {[1..k -> Chars] : k \in 0..n}

RECURSIVE LStrip(_)
LStrip(s) == IF s # <<>> /\ Head(s) = " " THEN LStrip(Tail(s)) ELSE s

RECURSIVE RStrip(_)
RStrip(s) ==
    IF s # <<>> /\ s[Len(s)] = " " THEN RStrip(SubSeq(s, 1, Len(s) - 1)) ELSE s

\* str.strip()
Strip(s) == RStrip(LStrip(s))

LowerChar(c) == IF c = "F" THEN "f" ELSE c

\* str.lower()
Lower(s) == [i \in 1..Len(s) |-> LowerChar(s[i])]

\* "@" in s
HasAt(s) == \E i \in 1..Len(s) : s[i] = "@"

\* (row.get(key) or "")
Get(row, key) == IF key \in DOMAIN row THEN row[key] ELSE <<>>

\* Python's s[k:]
SliceFrom(s, k) ==
    LET start == IF k < 0 THEN Max(Len(s) + k, 0) ELSE Min(k, Len(s))
    IN  SubSeq(s, start + 1, Len(s))

\* Python's s[:k]
SliceTo(s, k) ==
    LET stop == IF k < 0 THEN Max(Len(s) + k, 0) ELSE Min(k, Len(s))
    IN  SubSeq(s, 1, stop)

(***************************************************************************)
(* build_context and load_recipients.                                      *)
(***************************************************************************)
EmailHeader == "Email Perusahaan"

Headers == {"Email Perusahaan", "Email"}

\* slugify, on the headers of the model
Slugify(header) == IF header = "Email Perusahaan" THEN "email_perusahaan" ELSE "email"

FixedKeys ==
    {"hospital", "province", "city", "address", "phone", "owner", "director", "email"}

\* lines 127-154: the fixed keys first (of the model's headers only "Email
\* Perusahaan" feeds one), then every header under its slug unless the slug
\* is already a key.
BuildContext(row) ==
    LET slugs == {Slugify(h) : h \in DOMAIN row}
    IN  [k \in FixedKeys \cup slugs |->
            IF k = "email" THEN Strip(Get(row, EmailHeader))
            ELSE IF k \in FixedKeys THEN <<>>
            ELSE Strip(row[CHOOSE h \in DOMAIN row : Slugify(h) = k])]

\* line 162: if not email or "@" not in email: continue
Usable(email) == email # <<>> /\ HasAt(email)

DedupKey_CaseSensitive(email) == email

\* line 164: key = email.lower()
DedupKey(email) == Lower(email)

RECURSIVE LoadFrom(_, _, _, _)
LoadFrom(rs, i, seen, acc) ==
    IF i > Len(rs) THEN acc
    ELSE LET email == Strip(Get(rs[i], EmailHeader))
             key == DedupKey(email)
         IN  IF ~Usable(email) THEN LoadFrom(rs, i + 1, seen, acc)
             ELSE IF key \in seen THEN LoadFrom(rs, i + 1, seen, acc)
             ELSE LoadFrom(rs, i + 1, seen \cup {key}, Append(acc, BuildContext(rs[i])))

\* lines 157-169
LoadRecipients(rs) == LoadFrom(rs, 1, {}, <<>>)

\* Cell text as iter_sheet_rows stores it: stripped (lines 112 and 119).
RowTexts(n) == {t \in Texts(n) : Strip(t) = t}

\* The rows iter_sheet_rows can yield for one workbook: every row has the
\* workbook's named headers as its keys (lines 118-122). The "Email" column,
\* whose slug is "email", holds a fixed other address.
RowsOver(headers, emails) ==
    {[h \in headers |-> IF h = EmailHeader THEN e ELSE <<"@", "f", "f", "f">>] :
        e \in emails}

\* The non-empty sets of named headers of a workbook.
HeaderSets == SUBSET Headers \ {{}}

SeqsUpTo(S, n) == UNION {[1..k -> S] : k \in 0..n}

\* The valid, pairwise distinct address of the i-th recipient of a list
\* handed to send_messages: "@" followed by i times "f".
MkEmail(i) == [j \in 1..(i + 1) |-> IF j = 1 THEN "@" ELSE "f"]

(***************************************************************************)
(* send_messages and its closure send_one.                                 *)
(***************************************************************************)
total == Len(recipients)

\* line 226: connection_cls = smtplib.SMTP_SSL if args.implicit_tls else smtplib.SMTP
Cls(implicit_tls) == IF implicit_tls THEN "SMTP_SSL" ELSE "SMTP"

NeedsStartTls_Always(implicit_tls) == TRUE

\* line 249: if not args.implicit_tls
NeedsStartTls(implicit_tls) == ~implicit_tls

GiveUp_OffByOne(n, retries) == n >= retries

\* line 255: if attempt > retries: raise
GiveUp(n, retries) == n > retries

Backoff_Flat(retry_delay, n) == retry_delay

\* line 257: backoff = args.retry_delay * attempt
Backoff(retry_delay, n) == retry_delay * n

ShouldPause_AfterLast(pause, i, n) == pause # 0

\* line 273: if args.pause and idx < total
ShouldPause(pause, i, n) == pause # 0 /\ i < n

AfterExit_LeakOnError(o, e) == IF e = "none" THEN o - 1 ELSE o

\* line 248: leaving the with block runs SMTP.__exit__, whose finally closes
\* the connection whether or not the body raised.
AfterExit(o, e) == o - 1

\* lines 226-230
SendMessagesEntry ==
    /\ pc = "send_messages"
    /\ connection_cls' = Cls(args.implicit_tls)
    /\ successes' = 0
    /\ failures' = <<>>
    /\ idx' = 0
    /\ pc' = "for"
    /\ UNCHANGED <<args, rows, recipients, exit_code, attempt, open, steps, exc,
                   progress, summary, sleeps, pauses, handoffs, connects>>
    /\ UNCHANGED sheetVars

\* line 264 (next element of enumerate) and, when there is one, the call of
\* send_one up to the head of its while loop (lines 233-244)
ForNext ==
    /\ pc = "for"
    /\ IF idx < total
       THEN /\ idx' = idx + 1
            /\ attempt' = 0
            /\ sleeps' = <<>>
            /\ handoffs' = 0
            /\ connects' = 0
            /\ pc' = "while"
       ELSE /\ pc' = "summary"
            /\ UNCHANGED <<idx, attempt, sleeps, handoffs, connects>>
    /\ UNCHANGED <<args, rows, recipients, exit_code, connection_cls, open, steps,
                   exc, successes, failures, progress, summary, pauses>>
    /\ UNCHANGED sheetVars

\* lines 245-246
WhileTop ==
    /\ pc = "while"
    /\ attempt' = attempt + 1
    /\ steps' = <<>>
    /\ pc' = "connect"
    /\ UNCHANGED <<args, rows, recipients, exit_code, connection_cls, idx, open,
                   exc, successes, failures, progress, summary, sleeps, pauses,
                   handoffs, connects>>
    /\ UNCHANGED sheetVars

\* line 248: connection_cls(host, port, timeout). The constructor either
\* returns a connected client or raises, leaving nothing open.
Connect ==
    /\ pc = "connect"
    /\ connects' = connects + 1
    /\ \/ /\ open' = open + 1
          /\ steps' = <<connection_cls>>
          /\ pc' = IF NeedsStartTls(args.implicit_tls) THEN "starttls" ELSE "login"
          /\ UNCHANGED exc
       \/ /\ exc' = "connect"
          /\ pc' = "except"
          /\ UNCHANGED <<open, steps>>
    /\ UNCHANGED <<args, rows, recipients, exit_code, connection_cls, idx, attempt,
                   successes, failures, progress, summary, sleeps, pauses, handoffs>>
    /\ UNCHANGED sheetVars

\* One operation on the open client: it completes, or it raises and control
\* leaves the with block.
ClientOp(at, op, next) ==
    /\ pc = at
    /\ \/ /\ steps' = Append(steps, op)
          /\ pc' = next
          /\ UNCHANGED exc
       \/ /\ exc' = op
          /\ pc' = "exit"
          /\ UNCHANGED steps

\* line 250
StartTls ==
    /\ ClientOp("starttls", "starttls", "login")
    /\ UNCHANGED <<args, rows, recipients, exit_code, connection_cls, idx, attempt,
                   open, successes, failures, progress, summary, sleeps, pauses,
                   handoffs, connects>>
    /\ UNCHANGED sheetVars

\* line 251
Login ==
    /\ ClientOp("login", "login", "send")
    /\ UNCHANGED <<args, rows, recipients, exit_code, connection_cls, idx, attempt,
                   open, successes, failures, progress, summary, sleeps, pauses,
                   handoffs, connects>>
    /\ UNCHANGED sheetVars

\* line 252: when send_message returns the server has accepted the message
SendMessage ==
    /\ ClientOp("send", "send", "exit")
    /\ handoffs' = IF pc' = "exit" /\ exc' = "none" THEN handoffs + 1 ELSE handoffs
    /\ UNCHANGED <<args, rows, recipients, exit_code, connection_cls, idx, attempt,
                   open, successes, failures, progress, summary, sleeps, pauses,
                   connects>>
    /\ UNCHANGED sheetVars

\* line 248, end of the with block: SMTP.__exit__ sends QUIT and closes the
\* socket in a finally clause; it raises SMTPResponseException when the reply
\* to QUIT is not 221, also when the body completed normally.
Exit ==
    /\ pc = "exit"
    /\ open' = AfterExit(open, exc)
    /\ IF exc # "none"
       THEN /\ pc' = "except"
            /\ UNCHANGED exc
       ELSE \/ /\ pc' = "return"
               /\ UNCHANGED exc
            \/ /\ exc' = "quit"
               /\ pc' = "except"
    /\ UNCHANGED <<args, rows, recipients, exit_code, connection_cls, idx, attempt,
                   steps, successes, failures, progress, summary, sleeps, pauses,
                   handoffs, connects>>
    /\ UNCHANGED sheetVars

\* lines 254-262: the except clause, up to the start of time.sleep(backoff)
Except ==
    /\ pc = "except"
    /\ IF GiveUp(attempt, args.retries)
       THEN /\ pc' = "failed"
            /\ UNCHANGED <<exc, sleeps>>
       ELSE /\ sleeps' = Append(sleeps, Backoff(args.retry_delay, attempt))
            /\ exc' = "none"
            /\ pc' = "backoff"
    /\ UNCHANGED <<args, rows, recipients, exit_code, connection_cls, idx, attempt,
                   open, steps, successes, failures, progress, summary, pauses,
                   handoffs, connects>>
    /\ UNCHANGED sheetVars

\* line 262: time.sleep(backoff) returns, back to the head of the while loop
BackoffDone ==
    /\ pc = "backoff"
    /\ pc' = "while"
    /\ UNCHANGED <<args, rows, recipients, exit_code>>
    /\ UNCHANGED senderVars
    /\ UNCHANGED sheetVars

\* lines 253, 266-268: send_one returns, the success is counted and printed
RecordSuccess ==
    /\ pc = "return"
    /\ successes' = successes + 1
    /\ progress' = Append(progress, <<recipients[idx].email, "Sent">>)
    /\ pc' = "pause_check"
    /\ UNCHANGED <<args, rows, recipients, exit_code, connection_cls, idx, attempt,
                   open, steps, exc, failures, summary, sleeps, pauses, handoffs,
                   connects>>
    /\ UNCHANGED sheetVars

RecordFailure_Reraise ==
    /\ pc = "failed"
    /\ exit_code' = 1
    /\ pc' = "exited"
    /\ UNCHANGED <<args, rows, recipients>>
    /\ UNCHANGED <<connection_cls, idx, attempt, open, steps, exc, successes,
                   failures, progress, summary, sleeps, pauses, handoffs, connects>>
    /\ UNCHANGED sheetVars

\* lines 256, 269-272: the exception leaves send_one and is recorded
RecordFailure ==
    /\ pc = "failed"
    /\ failures' = Append(failures, <<recipients[idx].email, exc>>)
    /\ progress' = Append(progress, <<recipients[idx].email, "Failed">>)
    /\ exc' = "none"
    /\ pc' = "pause_check"
    /\ UNCHANGED <<args, rows, recipients, exit_code, connection_cls, idx, attempt,
                   open, steps, successes, summary, sleeps, pauses, handoffs,
                   connects>>
    /\ UNCHANGED sheetVars

\* lines 273-274, up to the start of time.sleep(args.pause)
PauseCheck ==
    /\ pc = "pause_check"
    /\ IF ShouldPause(args.pause, idx, total)
       THEN /\ pauses' = pauses + 1
            /\ pc' = "pause"
       ELSE /\ pc' = "for"
            /\ UNCHANGED pauses
    /\ UNCHANGED <<args, rows, recipients, exit_code, connection_cls, idx, attempt,
                   open, steps, exc, successes, failures, progress, summary,
                   sleeps, handoffs, connects>>
    /\ UNCHANGED sheetVars

\* line 274: time.sleep(args.pause) returns
PauseDone ==
    /\ pc = "pause"
    /\ pc' = "for"
    /\ UNCHANGED <<args, rows, recipients, exit_code>>
    /\ UNCHANGED senderVars
    /\ UNCHANGED sheetVars

\* lines 276-280, and the return to main, which ends the process
Summary ==
    /\ pc = "summary"
    /\ summary' = Append(summary, [success |-> successes, failed |-> Len(failures)])
    /\ exit_code' = 0
    /\ pc' = "done"
    /\ UNCHANGED <<args, rows, recipients, connection_cls, idx, attempt,
                   open, steps, exc, successes, failures, progress, sleeps,
                   pauses, handoffs, connects>>
    /\ UNCHANGED sheetVars

SenderInit ==
    /\ connection_cls = "unset"
    /\ idx = 0
    /\ attempt = 0
    /\ open = 0
    /\ steps = <<>>
    /\ exc = "none"
    /\ successes = 0
    /\ failures = <<>>
    /\ progress = <<>>
    /\ summary = <<>>
    /\ sleeps = <<>>
    /\ pauses = 0
    /\ handoffs = 0
    /\ connects = 0

SheetIdle ==
    /\ sheet_pos = 0
    /\ header_map = <<>>
    /\ later = <<>>
    /\ yielded = <<>>

\* The namespaces parse_args can return, as far as the sender reads them.
SenderArgs ==
    [retries : 0..MaxRetries, retry_delay : 0..MaxRetryDelay, pause : 0..MaxPause,
     implicit_tls : BOOLEAN, skip : {0}, limit : {<<>>}, dry_run : {FALSE}]

\* send_messages is entered with a non-empty list of contexts whose addresses
\* are valid and pairwise distinct (main, lines 360-368 and 384).
Init ==
    /\ args \in SenderArgs
    /\ rows = <<>>
    /\ \E n \in 1..MaxRecipients : recipients = [i \in 1..n |-> [email |-> MkEmail(i)]]
    /\ pc = "send_messages"
    /\ exit_code = -1
    /\ SenderInit
    /\ SheetIdle

Next ==
    \/ SendMessagesEntry
    \/ ForNext
    \/ WhileTop
    \/ Connect
    \/ StartTls
    \/ Login
    \/ SendMessage
    \/ Exit
    \/ Except
    \/ BackoffDone
    \/ RecordSuccess
    \/ RecordFailure
    \/ PauseCheck
    \/ PauseDone
    \/ Summary

Spec == Init /\ [][Next]_vars

(***************************************************************************)
(* load_recipients on its own.                                             *)
(***************************************************************************)
\* lines 157-169, called on a workbook whose reader yields rows
Load ==
    /\ pc = "load_recipients"
    /\ recipients' = LoadRecipients(rows)
    /\ pc' = "loaded"
    /\ UNCHANGED <<args, rows, exit_code>>
    /\ UNCHANGED senderVars
    /\ UNCHANGED sheetVars

\* A namespace for the runs that read no argument.
NoArgs ==
    [retries |-> 0, retry_delay |-> 0, pause |-> 0, implicit_tls |-> FALSE,
     skip |-> 0, limit |-> <<>>, dry_run |-> FALSE]

InitRecipients ==
    /\ args = NoArgs
    /\ \E hs \in HeaderSets : rows \in SeqsUpTo(RowsOver(hs, RowTexts(MaxEmailLen)), MaxRows)
    /\ recipients = <<>>
    /\ pc = "load_recipients"
    /\ exit_code = -1
    /\ SenderInit
    /\ SheetIdle

NextRecipients == Load

SpecRecipients == InitRecipients /\ [][NextRecipients]_vars

(***************************************************************************)
(* main, from load_recipients to the call of send_messages.                *)
(***************************************************************************)
NoRecipients_BeforeSlicing(loaded, sliced) == loaded = <<>>

\* line 366: if not recipients
NoRecipients(loaded, sliced) == sliced = <<>>

\* lines 360-384 up to the call of preview_messages or send_messages
Main ==
    /\ pc = "main"
    /\ LET loaded == LoadRecipients(rows)
           skipped == IF args.skip # 0 THEN SliceFrom(loaded, args.skip) ELSE loaded
           sliced == IF args.limit # <<>> THEN SliceTo(skipped, args.limit[1]) ELSE skipped
       IN  /\ recipients' = sliced
           /\ IF NoRecipients(loaded, sliced)
              THEN pc' = "exited" /\ exit_code' = 1
              ELSE IF args.dry_run
              THEN pc' = "done" /\ exit_code' = 0
              ELSE pc' = "send_messages" /\ UNCHANGED exit_code
    /\ UNCHANGED <<args, rows>>
    /\ UNCHANGED senderVars
    /\ UNCHANGED sheetVars

\* Addresses of main's workbooks: two spellings of one address, a second
\* address and a text without "@".
MainEmails == {<<"F", "@">>, <<"f", "@">>, <<"@">>, <<"f">>}

\* --limit is absent (<<>>) or an integer; --skip is an integer.
MainArgs ==
    [retries : {1}, retry_delay : {1}, pause : {1}, implicit_tls : {FALSE},
     skip : -1..MaxRows, limit : {<<>>} \cup {<<n>> : n \in -1..MaxRows},
     dry_run : BOOLEAN]

InitMain ==
    /\ args \in MainArgs
    /\ rows \in SeqsUpTo(RowsOver({EmailHeader}, MainEmails), MaxRows)
    /\ recipients = <<>>
    /\ pc = "main"
    /\ exit_code = -1
    /\ SenderInit
    /\ SheetIdle

NextMain == Main \/ Next

SpecMain == InitMain /\ [][NextMain]_vars

(***************************************************************************)
(* iter_sheet_rows.                                                        *)
(***************************************************************************)
\* ord(char.upper()) of the column letters of the model
Ord(c) == IF c = "A" THEN 65 ELSE 66

RECURSIVE LettersValue(_, _)
LettersValue(letters, index) ==
    IF letters = <<>> THEN index
    ELSE LettersValue(Tail(letters), index * 26 + (Ord(Head(letters)) - 64))

\* lines 43-48
ColumnLettersToIndex(letters) == LettersValue(letters, 0) - 1

\* The text read_cell_value returns for a cell.
CellTexts == {<<>>, <<" ">>, <<"f">>}

\* A c element: the letters of its r attribute (<<>> when the attribute is
\* missing or does not match CELL_REF_PATTERN) and its text.
Cells == [ref : {<<>>, <<"A">>, <<"B">>}, text : CellTexts]

\* A row element: its c children in document order.
PhysicalRows == SeqsUpTo(Cells, MaxCells)

NoCells == [i \in {} |-> <<>>]

RECURSIVE ReadCells(_, _, _)
\* lines 103-112
ReadCells(row, i, cells) ==
    IF i > Len(row) THEN cells
    ELSE IF row[i].ref = <<>> THEN ReadCells(row, i + 1, cells)
    ELSE LET col == ColumnLettersToIndex(row[i].ref)
         IN  ReadCells(row, i + 1,
                 [c \in DOMAIN cells \cup {col} |->
                     IF c = col THEN Strip(row[i].text) ELSE cells[c]])

\* lines 118-122: a later index with the same header name overwrites
RowDict(hm, cells) ==
    LET names == {hm[i] : i \in {j \in DOMAIN hm : hm[j] # <<>>}}
    IN  [n \in names |->
            LET last == CHOOSE i \in DOMAIN hm :
                            /\ hm[i] = n
                            /\ \A j \in DOMAIN hm : hm[j] = n => j <= i
            IN  Strip(IF last \in DOMAIN cells THEN cells[last] ELSE <<>>)]

Yields_AnyValue(row_dict) == \E n \in DOMAIN row_dict : row_dict[n] # <<>>

\* line 123: if row_dict
Yields(row_dict) == DOMAIN row_dict # {}

\* lines 102-124: one iteration of the loop over the row elements
SheetRow ==
    /\ pc = "iter_sheet_rows"
    /\ sheet_pos < MaxSheetRows
    /\ \E row \in PhysicalRows :
           LET cells == ReadCells(row, 1, NoCells)
           IN  IF DOMAIN cells = {}
               THEN UNCHANGED <<header_map, later, yielded>>
               ELSE IF header_map = <<>>
               THEN /\ header_map' = <<cells>>
                    /\ UNCHANGED <<later, yielded>>
               ELSE /\ later' = Append(later, cells)
                    /\ yielded' = IF Yields(RowDict(header_map[1], cells))
                                  THEN Append(yielded, RowDict(header_map[1], cells))
                                  ELSE yielded
                    /\ UNCHANGED header_map
    /\ sheet_pos' = sheet_pos + 1
    /\ UNCHANGED <<args, rows, recipients, pc, exit_code>>
    /\ UNCHANGED senderVars

\* line 102: no row element is left, the generator is exhausted
SheetEnd ==
    /\ pc = "iter_sheet_rows"
    /\ pc' = "exhausted"
    /\ UNCHANGED <<args, rows, recipients, exit_code>>
    /\ UNCHANGED senderVars
    /\ UNCHANGED sheetVars

InitSheet ==
    /\ args = NoArgs
    /\ rows = <<>>
    /\ recipients = <<>>
    /\ pc = "iter_sheet_rows"
    /\ exit_code = -1
    /\ SenderInit
    /\ SheetIdle

NextSheet == SheetRow \/ SheetEnd

SpecSheet == InitSheet /\ [][NextSheet]_vars

(***************************************************************************)
(* Properties of the sender.                                               *)
(***************************************************************************)
InSendOne ==
    {"while", "connect", "starttls", "login", "send", "exit", "except",
     "backoff", "return", "failed"}

ConnectionHeld == {"starttls", "login", "send", "exit"}

IsPrefix(s, t) == Len(s) <= Len(t) /\ \A i \in 1..Len(s) : s[i] = t[i]

IsSent(p) == p[2] = "Sent"

IsFailed(p) == p[2] = "Failed"

\* The current recipient has just been recorded as sent.
Succeeded ==
    /\ pc = "pause_check"
    /\ Len(progress) = idx
    /\ IsSent(progress[idx])

C1_Attempts ==
    /\ connects <= args.retries + 1
    /\ attempt <= args.retries + 1
    /\ pc = "failed" => connects = args.retries + 1
    /\ pc = "backoff" => connects <= args.retries /\ Len(sleeps) = connects

C1_AfterFailure ==
    pc = "except" =>
        /\ attempt > args.retries => pc' = "failed" /\ connects' = connects
        /\ attempt <= args.retries => pc' = "backoff" /\ Len(sleeps') = Len(sleeps) + 1

\* C1: send_one makes at most retries+1 connection attempts for a recipient;
\* after failed attempt n it propagates the failure when n > retries and
\* otherwise sleeps and retries, so it gives up only after exactly retries+1
\* attempts.
C1_BoundedRetries == []C1_Attempts /\ [][C1_AfterFailure]_vars

\* A recipient whose retries=2 are exhausted: three attempts, two sleeps.
C1_Witness ==
    pc = "failed" /\ args.retries = 2 /\ connects = 3 /\ Len(sleeps) = 2

C2_Outcomes ==
    /\ Len(progress) <= total
    /\ \A i \in 1..Len(progress) : progress[i][1] = recipients[i].email
    /\ successes = Len(SelectSeq(progress, IsSent))
    /\ Len(failures) = Len(SelectSeq(progress, IsFailed))
    /\ \A i \in 1..Len(failures) :
           failures[i][1] = SelectSeq(progress, IsFailed)[i][1]
    /\ pc \in InSendOne => Len(progress) = idx - 1
    /\ Len(summary) <= 1
    /\ \A i \in 1..Len(summary) :
           /\ Len(progress) = total
           /\ summary[i].success = successes
           /\ summary[i].failed = Len(failures)
           /\ summary[i].success + summary[i].failed = total

C2_Continues ==
    pc = "failed" =>
        /\ pc' = "pause_check"
        /\ idx' = idx
        /\ failures' = Append(failures, <<recipients[idx].email, exc>>)
        /\ successes' = successes

\* C2: exhausted retries never abort the batch: every recipient is processed
\* once, in list order, ends as one counted success or one (email, reason)
\* failure entry, and the summary's successes plus failures equal the number
\* of recipients.
C2_BatchCompletes == []C2_Outcomes /\ [][C2_Continues]_vars

\* The summary of a run whose first recipient failed and whose second was sent.
C2_Witness ==
    /\ Len(summary) = 1
    /\ total = 2
    /\ IsFailed(progress[1])
    /\ IsSent(progress[2])
    /\ failures = <<(<<recipients[1].email, "login">>)>>

C3_Counted ==
    /\ Len(sleeps) = attempt - 1
    /\ \A j \in 1..Len(sleeps) : sleeps[j] = args.retry_delay * j
    /\ successes = Len(SelectSeq(progress, IsSent))
    /\ \A i \in 1..Len(failures) : failures[i][1] # recipients[idx].email

\* C3 as stated: k failures then a success give one success, no failure entry
\* and k sleeps, the j-th of retry_delay * j, of increasing duration.
C3_IncreasingSleeps ==
    Succeeded =>
        /\ C3_Counted
        /\ \A j \in 1..(Len(sleeps) - 1) : sleeps[j] < sleeps[j + 1]

\* C3: k failures (k <= retries) then a success give one success, no failure
\* entry and exactly k sleeps, the j-th of retry_delay * j; the durations
\* never decrease, and they increase strictly when retry_delay > 0.
C3_BackoffSleeps ==
    Succeeded =>
        /\ C3_Counted
        /\ \A j \in 1..(Len(sleeps) - 1) : sleeps[j] <= sleeps[j + 1]
        /\ args.retry_delay > 0 =>
               \A j \in 1..(Len(sleeps) - 1) : sleeps[j] < sleeps[j + 1]

\* retries=2, two failures, then the third attempt succeeds.
C3_Witness ==
    /\ Succeeded
    /\ args.retries = 2
    /\ args.retry_delay = 2
    /\ attempt = 3
    /\ sleeps = <<2, 4>>

\* C4: with a pacing delay configured, one pacing sleep follows the recorded
\* outcome of every recipient but the last and precedes the next recipient's
\* first attempt; a run over N recipients has exactly N-1 pacing sleeps.
C4_Pacing ==
    args.pause # 0 =>
        /\ pc \in InSendOne \cup {"pause_check"} => pauses = idx - 1
        /\ pc = "pause" => pauses = idx /\ idx < total /\ Len(progress) = idx
        /\ pc = "for" => pauses = Min(idx, Max(total - 1, 0))
        /\ pc \in {"summary", "done"} => pauses = total - 1

\* The pacing sleep after a failed first recipient of two.
C4_Witness ==
    /\ pc = "pause"
    /\ args.pause # 0
    /\ total = 2
    /\ idx = 1
    /\ IsFailed(progress[1])
    /\ pauses = 1

\* C5: at most one connection is open; one is open exactly between a
\* successful connect and the end of that attempt's with block, so none is
\* open at the start of an attempt, during either sleep or between recipients.
C5_OneConnection ==
    /\ open \in {0, 1}
    /\ open = 1 <=> pc \in ConnectionHeld

\* A backoff sleep after an attempt whose connection was opened and then failed.
C5_Witness ==
    pc = "backoff" /\ Len(steps) >= 1 /\ open = 0

C9_ExpectedSteps ==
    IF connection_cls = "SMTP_SSL"
    THEN <<"SMTP_SSL", "login", "send">>
    ELSE <<"SMTP", "starttls", "login", "send">>

C9_Steps ==
    /\ pc # "send_messages" => connection_cls = Cls(args.implicit_tls)
    /\ IsPrefix(steps, C9_ExpectedSteps)
    /\ pc \in {"login", "send"} /\ connection_cls = "SMTP" => "starttls" \in {steps[i] : i \in 1..Len(steps)}

C9_Fixed ==
    /\ args' = args
    /\ pc # "send_messages" => connection_cls' = connection_cls

\* C9: the mode is chosen once per run and every attempt follows it: connect,
\* STARTTLS, login, send in explicit-upgrade mode and connect, login, send in
\* implicit-TLS mode; no message is sent before login on that connection.
C9_OneMode == []C9_Steps /\ [][C9_Fixed]_vars

\* The second attempt for the second recipient of an implicit-TLS run.
C9_Witness ==
    /\ args.implicit_tls
    /\ idx = 2
    /\ attempt = 2
    /\ steps = <<"SMTP_SSL", "login", "send">>

\* C10: the message of a recipient is handed to the server at most once, and
\* a recipient whose message was handed off is neither retried nor recorded
\* as failed.
C10_NoDuplicateDelivery ==
    /\ handoffs <= 1
    /\ pc \in {"backoff", "failed"} => handoffs = 0

(***************************************************************************)
(* Properties of main and load_recipients.                                 *)
(***************************************************************************)
SenderPcs ==
    InSendOne \cup {"send_messages", "for", "pause_check", "pause", "summary"}

\* C6: when main's recipient list is empty after loading, --skip and --limit,
\* the process exits with status 1 and no connection is ever attempted;
\* send_messages never runs on an empty list.
C6_EmptyIsFatal ==
    /\ pc # "main" /\ recipients = <<>> =>
           /\ pc = "exited"
           /\ exit_code = 1
           /\ connection_cls = "unset"
           /\ connects = 0
           /\ open = 0
    /\ pc \in SenderPcs => recipients # <<>>
    /\ connects > 0 => recipients # <<>>

\* A workbook with a valid address whose only recipient is sliced away.
C6_Witness ==
    /\ pc = "exited"
    /\ exit_code = 1
    /\ LoadRecipients(rows) # <<>>
    /\ recipients = <<>>

C7_Email(i) == Strip(Get(rows[i], EmailHeader))

\* The rows load_recipients must keep: a usable address that no earlier row
\* carries in any spelling.
C7_Keep ==
    {i \in 1..Len(rows) :
        /\ C7_Email(i) # <<>>
        /\ HasAt(C7_Email(i))
        /\ \A j \in 1..(i - 1) : Lower(C7_Email(j)) # Lower(C7_Email(i))}

C7_Nth(k) == CHOOSE i \in C7_Keep : Cardinality({j \in C7_Keep : j <= i}) = k

\* C7: load_recipients drops every row whose trimmed address is empty or
\* lacks "@", keeps of the rows with one lowercased address only the first,
\* in input order, and every recipient carries the address of its row as
\* first written.
C7_FirstWins ==
    pc = "loaded" =>
        /\ Len(recipients) = Cardinality(C7_Keep)
        /\ \A k \in 1..Len(recipients) :
               /\ recipients[k].email = C7_Email(C7_Nth(k))
               /\ recipients[k].email # <<>>
               /\ HasAt(recipients[k].email)

\* 'F@' then 'f@': one recipient, spelled 'F@'.
C7_Witness ==
    /\ pc = "loaded"
    /\ Len(rows) = 2
    /\ C7_Email(1) = <<"F", "@">>
    /\ C7_Email(2) = <<"f", "@">>
    /\ Len(recipients) = 1
    /\ recipients[1].email = <<"F", "@">>

(***************************************************************************)
(* Properties of iter_sheet_rows.  A row counts as non-empty when at least *)
(* one of its cells carries a column reference; later holds the cells of   *)
(* the non-empty rows after the header row.                                *)
(***************************************************************************)
C8_Named == {i \in DOMAIN header_map[1] : header_map[1][i] # <<>>}

\* yielded[k] is the row later[k] under the header names
C8_IsRowOf(k) ==
    /\ DOMAIN yielded[k] = {header_map[1][i] : i \in C8_Named}
    /\ \A i \in C8_Named :
           (\A j \in C8_Named : header_map[1][j] = header_map[1][i] => j <= i) =>
               yielded[k][header_map[1][i]] =
                   IF i \in DOMAIN later[k] THEN later[k][i] ELSE <<>>

====
